---- MODULE Spec2Model ----
(***************************************************************************)
(* A model of tealdeer's page cache (src/src/cache.rs): page resolution    *)
(* (Cache::find_page), the chained reader (PageLookupResult::reader), the  *)
(* cache lifecycle (open, open_or_create, clear), the page listing         *)
(* (list_pages) and the archive refresh (update).                          *)
(*                                                                         *)
(* Strings and paths are sequences of one-character strings, so that       *)
(* format!, PathBuf::push, PathBuf::pop, ends_with, truncate and the byte  *)
(* order used by sort are computed the way the code computes them.         *)
(* The filesystem is the set of canonical paths that are regular files,    *)
(* plus the kind of the cache root.  Every path the model probes is        *)
(* readable: an error of metadata() or is_file() other than absence is not *)
(* modelled.                                                               *)
(***************************************************************************)
EXTENDS Integers, Sequences, FiniteSets, TLC

VARIABLES
    config,     \* CacheConfig: custom_pages_directory, platforms, languages
    command,    \* the command name looked up in this run
    files,      \* the regular files on disk (canonical paths)
    found,      \* the outcome of the last find_page call
    rd,         \* the chained reader and the files it reads
    life,       \* the cache root, its tree and the Cache handle
    ls,         \* the directories list_pages walks and its last outputs
    upd         \* the cache tree during update

vars == <<config, command, files, found, rd, life, ls, upd>>

\* ------------------------------------------------------------------ bounds

MaxCmdComponents == 2
MaxPlatforms == 2
MaxLanguages == 2
MaxFiles == 3
MaxLen == 2
MaxChunk == 2
MaxTree == 2
MaxEntries == 3
MaxPages == 2

\* ----------------------------------------------------------------- strings

None == <<>>
Some(x) == <<x>>

Sep == "/"

\* format!("{a}{b}")
Format(a, b) == a \o b

S_md == <<".", "m", "d">>
S_patch_md == <<".", "p", "a", "t", "c", "h", ".", "m", "d">>
S_page_md == <<".", "p", "a", "g", "e", ".", "m", "d">>
S_pages_dot == <<"p", "a", "g", "e", "s", ".">>

\* config.pages_directory and the custom pages directory of the runs
PagesDirectory == <<"r">>
CustomDirectory == <<"c">>

PlatformType ==
    {"Linux", "OsX", "SunOs", "Windows", "Android", "FreeBsd", "NetBsd",
     "OpenBsd", "Common"}

LanguageDirectoryName(tag) == Format(S_pages_dot, tag)

PlatformDirectoryName(p) ==
    CASE p = "Linux" -> <<"l", "i", "n", "u", "x">>
      [] p = "OsX" -> <<"o", "s", "x">>
      [] p = "SunOs" -> <<"s", "u", "n", "o", "s">>
      [] p = "Windows" -> <<"w", "i", "n", "d", "o", "w", "s">>
      [] p = "Android" -> <<"a", "n", "d", "r", "o", "i", "d">>
      [] p = "FreeBsd" -> <<"f", "r", "e", "e", "b", "s", "d">>
      [] p = "NetBsd" -> <<"n", "e", "t", "b", "s", "d">>
      [] p = "OpenBsd" -> <<"o", "p", "e", "n", "b", "s", "d">>
      [] p = "Common" -> <<"c", "o", "m", "m", "o", "n">>

\* ------------------------------------------------------------------- paths

\* Path::components for the paths of the model: the pieces between
\* separators, empty pieces dropped.
RECURSIVE SplitFrom(_, _, _, _)
SplitFrom(s, i, cur, acc) ==
    IF i > Len(s)
    THEN IF cur = <<>> THEN acc ELSE Append(acc, cur)
    ELSE IF s[i] = Sep
         THEN SplitFrom(s, i + 1, <<>>, IF cur = <<>> THEN acc ELSE Append(acc, cur))
         ELSE SplitFrom(s, i + 1, Append(cur, s[i]), acc)

Components(s) == SplitFrom(s, 1, <<>>, <<>>)

IsAbsolute(s) == Len(s) > 0 /\ s[1] = Sep

RECURSIVE JoinComponents(_)
JoinComponents(cs) ==
    IF cs = <<>> THEN <<>>
    ELSE IF Len(cs) = 1 THEN cs[1]
    ELSE cs[1] \o <<Sep>> \o JoinComponents(Tail(cs))

\* The file a path names: its components joined by single separators.
Canon(s) == (IF IsAbsolute(s) THEN <<Sep>> ELSE <<>>) \o JoinComponents(Components(s))

\* PathBuf::push: an absolute path replaces the buffer, otherwise a separator
\* is added unless the buffer is empty or ends with one.
Push(buf, s) ==
    IF IsAbsolute(s) THEN s
    ELSE IF Len(buf) > 0 /\ buf[Len(buf)] # Sep THEN buf \o <<Sep>> \o s
    ELSE buf \o s

\* Path::join
Join(buf, s) == Push(buf, s)

\* PathBuf::pop: truncate to Path::parent, the path without its last
\* component; nothing happens when there is no last component.
Pop(buf) ==
    LET cs == Components(buf)
    IN  IF cs = <<>> THEN buf
        ELSE (IF IsAbsolute(buf) THEN <<Sep>> ELSE <<>>)
                 \o JoinComponents(SubSeq(cs, 1, Len(cs) - 1))

\* Path::is_file
IsFile(fs, path) == Canon(path) \in fs

\* ------------------------------------------------------------- find_page

WithPage(page_path) == [page_path |-> page_path, patch_path |-> None]

\* A builder that forgets the patch.
WithoutPatch(r, patch_path) == r

WithOptionalPatch(r, patch_path) == [r EXCEPT !.patch_path = patch_path]

page_filename(cmd) == Format(cmd, S_md)
patch_filename(cmd) == Format(cmd, S_patch_md)
custom_filename(cmd) == Format(cmd, S_page_md)

\* The outcome of a call: the Option<PageLookupResult>, the branch that
\* produced it, and for every iteration of the tree search the search path
\* at its start and the path it tested.
NotCalled == [result |-> None, via |-> "idle", probes |-> <<>>]

\* patch_path: the custom directory mapped to the patch file, kept when it
\* is a file.
PatchPath(cfg, fs, cmd) ==
    IF cfg.custom_pages_directory # None
    THEN LET path == Join(cfg.custom_pages_directory[1], patch_filename(cmd))
         IN  IF IsFile(fs, path) THEN Some(path) ELSE None
    ELSE None

\* A custom override that takes the patch along.
CustomPageWithPatch(cfg, fs, cmd) ==
    IF cfg.custom_pages_directory # None
    THEN LET custom_page == Join(cfg.custom_pages_directory[1], custom_filename(cmd))
         IN  IF IsFile(fs, custom_page)
             THEN Some([page_path |-> custom_page, patch_path |-> PatchPath(cfg, fs, cmd)])
             ELSE None
    ELSE None

\* The custom override: Some(page) when a custom directory is configured and
\* holds the command's .page.md file.
CustomPage(cfg, fs, cmd) ==
    IF cfg.custom_pages_directory # None
    THEN LET custom_page == Join(cfg.custom_pages_directory[1], custom_filename(cmd))
         IN  IF IsFile(fs, custom_page) THEN Some(WithPage(custom_page)) ELSE None
    ELSE None

\* The three pushes of one iteration.
PushThree(search_path, language, platform, cmd) ==
    Push(Push(Push(search_path, LanguageDirectoryName(language)),
              PlatformDirectoryName(platform)),
         page_filename(cmd))

\* Two pops only: the language directory stays on the search path.
PopTwo(search_path) == Pop(Pop(search_path))

\* The three pops after a probe that found no file.
PopThree(search_path) == Pop(Pop(Pop(search_path)))

\* The k-th (platform, language) pair of the nested loops: platforms outside,
\* languages inside.
NumPairs(cfg) == Len(cfg.platforms) * Len(cfg.languages)

PairAt(cfg, k) ==
    LET nl == Len(cfg.languages)
    IN  [platform |-> cfg.platforms[((k - 1) \div nl) + 1],
         language |-> cfg.languages[((k - 1) % nl) + 1]]

RECURSIVE SearchLoop(_, _, _, _, _, _, _)
SearchLoop(cfg, fs, cmd, patch_path, k, search_path, probes) ==
    IF k > NumPairs(cfg)
    THEN [result |-> None, via |-> "none", probes |-> probes]
    ELSE LET pair == PairAt(cfg, k)
             pushed == PushThree(search_path, pair.language, pair.platform, cmd)
             log == Append(probes, [start |-> search_path,
                                    platform |-> pair.platform,
                                    language |-> pair.language,
                                    path |-> pushed])
         IN  IF IsFile(fs, pushed)
             THEN [result |-> Some(WithOptionalPatch(WithPage(pushed), patch_path)),
                   via |-> "tree", probes |-> log]
             ELSE SearchLoop(cfg, fs, cmd, patch_path, k + 1, PopThree(pushed), log)

find_page(cfg, fs, cmd) ==
    LET custom == CustomPage(cfg, fs, cmd)
    IN  IF custom # None
        THEN [result |-> custom, via |-> "custom", probes |-> <<>>]
        ELSE SearchLoop(cfg, fs, cmd, PatchPath(cfg, fs, cmd), 1, PagesDirectory, <<>>)

\* ------------------------------------------------- the runs of find_page

Letters == <<"a", "b", "c", "d", "e">>

\* The command name with n components: a, a/b, a/b/c, ...
RECURSIVE CommandOf(_)
CommandOf(n) == IF n = 1 THEN <<Letters[1]>> ELSE CommandOf(n - 1) \o <<Sep, Letters[n]>>

Commands == {CommandOf(n) : n \in 1..MaxCmdComponents}

Platforms == {"Linux", "OsX", "Common"}
Languages == {<<"e", "n">>, <<"d", "e">>}

\* The sequences without repetition over S of length at most n: the
\* platform and language lists reach the cache with duplicates cleared
\* (Dedup::clear_duplicates).
NoRepeat(q) == \A i, j \in DOMAIN q : i # j => q[i] # q[j]

RECURSIVE ListsOver(_, _)
ListsOver(S, n) ==
    IF n = 0 THEN {<<>>}
    ELSE LET shorter == ListsOver(S, n - 1)
         IN  shorter \cup {q \in {Append(r, x) : r \in shorter, x \in S} : NoRepeat(q)}

Configs ==
    [custom_pages_directory : {None, Some(CustomDirectory)},
     platforms : ListsOver(Platforms, MaxPlatforms),
     languages : ListsOver(Languages, MaxLanguages)]

\* The files named by the layout for one command, written out from the
\* layout and not by way of push or join.
TreePagePath(language, platform, cmd) ==
    Canon(PagesDirectory \o <<Sep>> \o S_pages_dot \o language \o <<Sep>>
            \o PlatformDirectoryName(platform) \o <<Sep>> \o cmd \o S_md)

CustomPagePath(cmd) == Canon(CustomDirectory \o <<Sep>> \o cmd \o S_page_md)
CustomPatchPath(cmd) == Canon(CustomDirectory \o <<Sep>> \o cmd \o S_patch_md)

Universe(cmd) ==
    {TreePagePath(l, p, cmd) : l \in Languages, p \in Platforms}
        \cup {CustomPagePath(cmd), CustomPatchPath(cmd)}

IdleRd == [phase |-> "idle"]
IdleLife == [phase |-> "idle"]
IdleLs == [phase |-> "idle"]
IdleUpd == [phase |-> "idle"]

InitFind ==
    /\ command \in Commands
    /\ config \in Configs
    /\ files \in {T \in SUBSET Universe(command) : Cardinality(T) <= MaxFiles}
    /\ found = NotCalled
    /\ rd = IdleRd /\ life = IdleLife /\ ls = IdleLs /\ upd = IdleUpd

FindPage ==
    /\ found' = find_page(config, files, command)
    /\ UNCHANGED <<config, command, files, rd, life, ls, upd>>

NextFind == FindPage

SpecFind == InitFind /\ [][NextFind]_vars

\* The runs whose command name is a single path component.
InitFindName == InitFind /\ Len(Components(command)) = 1

SpecFindName == InitFindName /\ [][NextFind]_vars

\* ------------------------------------------------ claims about find_page

Called == found.via # "idle"

CustomOverrideExists ==
    config.custom_pages_directory # None /\ CustomPagePath(command) \in files

PatchFileExists ==
    config.custom_pages_directory # None /\ CustomPatchPath(command) \in files

\* The pairs of the configuration for which the layout holds a page, as
\* indices in platform-major order.
PairIndex(i, j) == (i - 1) * Len(config.languages) + j

Matching ==
    {<<i, j>> \in (DOMAIN config.platforms) \X (DOMAIN config.languages) :
        TreePagePath(config.languages[j], config.platforms[i], command) \in files}

FirstMatching ==
    CHOOSE m \in Matching : \A o \in Matching : PairIndex(m[1], m[2]) <= PairIndex(o[1], o[2])

SingleComponent == Len(Components(command)) = 1

\* C1: when a custom directory is configured and holds <C>.page.md, find_page
\* returns exactly that file, whatever tree pages or patch exist, and the
\* result carries no patch.
C1_CustomOverrideWins ==
    (Called /\ CustomOverrideExists) =>
        found.result = Some([page_path |-> CustomPagePath(command), patch_path |-> None])

\* The override is returned although a tree page of the first pair and a
\* patch exist too.
C1_Witness ==
    /\ Called /\ CustomOverrideExists
    /\ CustomPatchPath(command) \in files
    /\ NumPairs(config) > 0
    /\ TreePagePath(config.languages[1], config.platforms[1], command) \in files
    /\ found.via = "custom"

\* C2: without a custom override find_page returns the page of the first
\* (platform, language) pair in platform-major order whose page file exists,
\* and "not found" when no pair has one.
C2_PlatformMajorFirstMatch ==
    (Called /\ ~CustomOverrideExists) =>
        IF Matching = {}
        THEN found.result = None
        ELSE /\ found.result # None
             /\ found.result[1].page_path =
                    TreePagePath(config.languages[FirstMatching[2]],
                                 config.platforms[FirstMatching[1]], command)

\* C3 as stated: no custom override, the most preferred language L1 absent
\* for the first platform P1 and present for a later platform P2: find_page
\* returns the P2/L1 page.
C3_LaterPlatformFirstLanguage ==
    \A i \in DOMAIN config.platforms :
        (/\ Called /\ ~CustomOverrideExists
         /\ i > 1 /\ Len(config.languages) > 0
         /\ TreePagePath(config.languages[1], config.platforms[1], command) \notin files
         /\ TreePagePath(config.languages[1], config.platforms[i], command) \in files)
        => /\ found.result # None
           /\ found.result[1].page_path =
                  TreePagePath(config.languages[1], config.platforms[i], command)

\* C3 amended: for a command name that is a single path component, the P2/L1
\* page is returned when, in addition, no platform before P2 has a page in
\* any configured language.
C3_LaterPlatformWhenEarlierEmpty ==
    \A i \in DOMAIN config.platforms :
        (/\ Called /\ ~CustomOverrideExists /\ SingleComponent
         /\ i > 1 /\ Len(config.languages) > 0
         /\ \A h \in 1..(i - 1) : \A j \in DOMAIN config.languages :
                TreePagePath(config.languages[j], config.platforms[h], command) \notin files
         /\ TreePagePath(config.languages[1], config.platforms[i], command) \in files)
        => /\ found.result # None
           /\ found.result[1].page_path =
                  TreePagePath(config.languages[1], config.platforms[i], command)

\* The P2/L1 page is returned after the probes of P1 in two languages failed.
C3_Witness ==
    /\ Called /\ ~CustomOverrideExists /\ SingleComponent
    /\ Len(config.platforms) > 1 /\ Len(config.languages) > 1
    /\ \A j \in DOMAIN config.languages :
           TreePagePath(config.languages[j], config.platforms[1], command) \notin files
    /\ TreePagePath(config.languages[1], config.platforms[2], command) \in files
    /\ found.result # None
    /\ found.result[1].page_path =
           TreePagePath(config.languages[1], config.platforms[2], command)

\* C4: the result carries a patch path exactly when the page came from the
\* tree search and a configured custom directory holds <C>.patch.md, and the
\* patch path is then that file.
C4_PatchOnlyOnTreeMatch ==
    (Called /\ found.result # None) =>
        /\ (found.result[1].patch_path # None) <=> (found.via = "tree" /\ PatchFileExists)
        /\ found.result[1].patch_path # None =>
               found.result[1].patch_path = Some(CustomPatchPath(command))

\* A tree match with the patch attached.
C4_Witness ==
    /\ Called /\ found.via = "tree" /\ PatchFileExists
    /\ found.result[1].patch_path = Some(CustomPatchPath(command))

\* C10: at the start of every iteration of the tree search the search path
\* is the pages directory, and the path tested for a pair is
\* <root>/pages.<language>/<platform_dir>/<command>.md.
C10_SearchPathRestored ==
    \A k \in DOMAIN found.probes :
        /\ found.probes[k].start = PagesDirectory
        /\ found.probes[k].path =
               TreePagePath(found.probes[k].language, found.probes[k].platform, command)

\* --------------------------------------------------------------- reader

Newline == "\n"
Bytes == {"h", Newline}

\* The contents of a file: the byte strings of length at most MaxLen.
RECURSIVE StringsUpTo(_, _)
StringsUpTo(S, n) ==
    IF n = 0 THEN {<<>>}
    ELSE LET shorter == StringsUpTo(S, n - 1)
         IN  shorter \cup {Append(q, x) : q \in shorter, x \in S}

Contents == StringsUpTo(Bytes, MaxLen)

\* A chain without the separator.
NoSeparator == <<>>

\* The separator chained between the page and the patch: &b"\n"[..]
Separator == <<Newline>>

Tagged(content, src) == [i \in 1..Len(content) |-> [byte |-> content[i], src |-> src]]

\* <File as Read>::read, <&[u8] as Read>::read: up to n bytes from pos on.
SourceRead(content, pos, n) ==
    LET amt == IF Len(content) - pos < n THEN Len(content) - pos ELSE n
    IN  SubSeq(content, pos + 1, pos + amt)

\* Chain::read of page_file.chain(separator): the page until it returns 0,
\* then the separator.
InnerChainRead(r, n) ==
    LET first == IF r.inner_done_first THEN <<>> ELSE SourceRead(r.page, r.page_pos, n)
    IN  IF first # <<>>
        THEN [state |-> [r EXCEPT !.page_pos = @ + Len(first)],
              bytes |-> Tagged(first, "page")]
        ELSE LET second == SourceRead(Separator, r.sep_pos, n)
             IN  [state |-> [r EXCEPT !.inner_done_first = TRUE,
                                      !.sep_pos = @ + Len(second)],
                  bytes |-> Tagged(second, "separator")]

\* Chain::read of (page_file.chain(separator)).chain(patch_file)
OuterChainRead(r, n) ==
    LET first == IF r.outer_done_first
                 THEN [state |-> r, bytes |-> <<>>]
                 ELSE InnerChainRead(r, n)
    IN  IF first.bytes # <<>>
        THEN first
        ELSE LET second == SourceRead(first.state.patch, first.state.patch_pos, n)
             IN  [state |-> [first.state EXCEPT !.outer_done_first = TRUE,
                                                !.patch_pos = @ + Len(second)],
                  bytes |-> Tagged(second, "patch")]

\* The boxed reader: the chain when a patch file was opened, the page file
\* alone otherwise.
BoxedRead(r, n) ==
    IF r.has_patch
    THEN OuterChainRead(r, n)
    ELSE LET got == SourceRead(r.page, r.page_pos, n)
         IN  [state |-> [r EXCEPT !.page_pos = @ + Len(got)],
              bytes |-> Tagged(got, "page")]

\* A PageLookupResult with the files it names: disk_page and disk_patch are
\* the contents of the files at page_path and patch_path (None: no file).
InitReader ==
    /\ rd \in [phase : {"new"},
               has_patch : BOOLEAN,
               disk_page : {None} \cup {Some(c) : c \in Contents},
               disk_patch : {None} \cup {Some(c) : c \in Contents},
               page : {<<>>}, patch : {<<>>},
               page_pos : {0}, sep_pos : {0}, patch_pos : {0},
               inner_done_first : {FALSE}, outer_done_first : {FALSE},
               out : {<<>>}]
    /\ config = [custom_pages_directory |-> None, platforms |-> <<>>, languages |-> <<>>]
    /\ command = <<>> /\ files = {} /\ found = NotCalled
    /\ life = IdleLife /\ ls = IdleLs /\ upd = IdleUpd

\* reader(): opens the page file and, when the result has a patch path, the
\* patch file; an open that fails is the error returned.
Reader ==
    /\ rd.phase = "new"
    /\ \/ /\ rd.disk_page # None
          /\ rd.has_patch => rd.disk_patch # None
          /\ rd' = [rd EXCEPT !.phase = "reading",
                              !.page = rd.disk_page[1],
                              !.patch = IF rd.has_patch THEN rd.disk_patch[1] ELSE <<>>]
       \/ /\ rd.disk_page = None \/ (rd.has_patch /\ rd.disk_patch = None)
          /\ rd' = [rd EXCEPT !.phase = "error"]
    /\ UNCHANGED <<config, command, files, found, life, ls, upd>>

\* One read call of the drain, with room for n bytes; a read of 0 bytes ends
\* the drain.
Read(n) ==
    /\ rd.phase = "reading"
    /\ LET got == BoxedRead(rd, n)
       IN  rd' = [got.state EXCEPT !.out = @ \o got.bytes,
                                   !.phase = IF got.bytes = <<>> THEN "eof" ELSE "reading"]
    /\ UNCHANGED <<config, command, files, found, life, ls, upd>>

NextReader == Reader \/ \E n \in 1..MaxChunk : Read(n)

SpecReader == InitReader /\ [][NextReader]_vars

\* What a drained stream has to hold.
ExpectedStream ==
    IF rd.has_patch
    THEN Tagged(rd.page, "page") \o Tagged(<<Newline>>, "separator") \o Tagged(rd.patch, "patch")
    ELSE Tagged(rd.page, "page")

IsPrefix(a, b) == Len(a) <= Len(b) /\ SubSeq(b, 1, Len(a)) = a

\* C5: the drained stream is the page, then one newline and the patch when
\* the result has a patch path, and the page alone otherwise; the bytes come
\* in that order, each from its own file.
C5_ReaderConcatenates ==
    /\ rd.phase \in {"reading", "eof"} => IsPrefix(rd.out, ExpectedStream)
    /\ rd.phase = "eof" => rd.out = ExpectedStream

\* A drained stream of a page ending in a newline and a non-empty patch.
C5_Witness ==
    /\ rd.phase = "eof" /\ rd.has_patch
    /\ rd.page = <<"h", Newline>> /\ rd.patch = <<"h">>
    /\ [i \in 1..Len(rd.out) |-> rd.out[i].byte] = <<"h", Newline, Newline, "h">>

\* ------------------------------------------------------------ lifecycle

\* The cache root is absent, a regular file or a directory; tree is what the
\* directory holds.  handle: a Cache value is alive.  op, outcome, before and
\* removed describe the last operation, prev the one before it.
TreeEntries == 1..MaxTree

Disk(l) == [root |-> l.root, tree |-> l.tree]

Did(l, op, outcome) ==
    [l EXCEPT !.op = op, !.outcome = outcome,
              !.before = Disk(l), !.prev = [op |-> l.op, outcome |-> l.outcome]]

\* metadata().map_or((false, false), |md| (true, md.is_dir()))
cache_dir_exists(l) == l.root # "absent"
cache_dir_is_dir(l) == l.root = "dir"

\* An open that creates the missing directory, as open_or_create does.
open_creating(l) ==
    IF ~(~cache_dir_exists(l) \/ cache_dir_is_dir(l))
    THEN Did(l, "open", "err")
    ELSE [Did(l, "open", "handle") EXCEPT !.handle = TRUE, !.root = "dir"]

\* Cache::open
open(l) ==
    IF ~(~cache_dir_exists(l) \/ cache_dir_is_dir(l))
    THEN Did(l, "open", "err")
    ELSE IF cache_dir_is_dir(l)
         THEN [Did(l, "open", "handle") EXCEPT !.handle = TRUE]
         ELSE Did(l, "open", "none")

\* Cache::open_or_create; created: whether create_dir_all succeeds.
open_or_create(l, created) ==
    IF ~(~cache_dir_exists(l) \/ cache_dir_is_dir(l))
    THEN Did(l, "open_or_create", "err")
    ELSE IF ~cache_dir_is_dir(l)
         THEN IF created
              THEN [Did(l, "open_or_create", "handle") EXCEPT !.handle = TRUE, !.root = "dir"]
              ELSE Did(l, "open_or_create", "err")
         ELSE [Did(l, "open_or_create", "handle") EXCEPT !.handle = TRUE]

\* A clear that empties the directory and leaves it in place.
clear_contents(l, removed, left) ==
    IF l.root = "dir" /\ removed
    THEN [Did(l, "clear", "ok") EXCEPT !.handle = FALSE, !.tree = {}, !.removed = l.tree]
    ELSE [Did(l, "clear", "err") EXCEPT !.handle = FALSE]

\* Cache::clear: remove_dir_all of the pages directory; the handle is
\* consumed.  left: what a failing removal of a directory leaves behind.
clear(l, removed, left) ==
    IF l.root = "dir" /\ removed
    THEN [Did(l, "clear", "ok") EXCEPT !.handle = FALSE, !.root = "absent",
                                      !.tree = {}, !.removed = l.tree]
    ELSE IF l.root = "dir"
         THEN [Did(l, "clear", "err") EXCEPT !.handle = FALSE, !.tree = left]
         ELSE [Did(l, "clear", "err") EXCEPT !.handle = FALSE]

InitLife ==
    /\ \E root \in {"absent", "file", "dir"} :
       \E tree \in SUBSET TreeEntries :
           /\ root # "dir" => tree = {}
           /\ life = [root |-> root, tree |-> tree, handle |-> FALSE,
                      op |-> "start", outcome |-> "none",
                      before |-> [root |-> root, tree |-> tree],
                      prev |-> [op |-> "start", outcome |-> "none"],
                      removed |-> {}]
    /\ config = [custom_pages_directory |-> None, platforms |-> <<>>, languages |-> <<>>]
    /\ command = <<>> /\ files = {} /\ found = NotCalled
    /\ rd = IdleRd /\ ls = IdleLs /\ upd = IdleUpd

LifeUnchanged == UNCHANGED <<config, command, files, found, rd, ls, upd>>

Open ==
    /\ ~life.handle
    /\ life' = open(life)
    /\ LifeUnchanged

OpenOrCreate ==
    /\ ~life.handle
    /\ \E created \in BOOLEAN : life' = open_or_create(life, created)
    /\ LifeUnchanged

Clear ==
    /\ life.handle
    /\ \E removed \in BOOLEAN : \E left \in SUBSET life.tree :
           life' = clear(life, removed, left)
    /\ LifeUnchanged

\* The handle goes out of scope.
DropHandle ==
    /\ life.handle
    /\ life' = [Did(life, "drop", "ok") EXCEPT !.handle = FALSE]
    /\ LifeUnchanged

\* Another process writes an entry under the root directory.
EnvWrite(e) ==
    /\ life.root = "dir" /\ e \notin life.tree
    /\ life' = [Did(life, "env", "ok") EXCEPT !.tree = @ \cup {e}]
    /\ LifeUnchanged

\* Another process removes the root, or creates it as a file or a directory.
EnvReplaceRoot(kind) ==
    /\ kind # life.root
    /\ life' = [Did(life, "env", "ok") EXCEPT !.root = kind, !.tree = {}]
    /\ LifeUnchanged

NextLife ==
    \/ Open
    \/ OpenOrCreate
    \/ Clear
    \/ DropHandle
    \/ \E e \in TreeEntries : EnvWrite(e)
    \/ \E kind \in {"absent", "file", "dir"} : EnvReplaceRoot(kind)

SpecLife == InitLife /\ [][NextLife]_vars

\* C6: open fails when the root exists and is no directory, returns "no
\* cache" when it is absent and a handle when it is a directory, and leaves
\* the filesystem as it was.
C6_OpenOutcomes ==
    life.op = "open" =>
        /\ life.before.root = "file" => (life.outcome = "err" /\ ~life.handle)
        /\ life.before.root = "absent" => (life.outcome = "none" /\ ~life.handle)
        /\ life.before.root = "dir" => (life.outcome = "handle" /\ life.handle)
        /\ life.outcome = "handle" => life.before.root = "dir"
        /\ Disk(life) = life.before

\* open returned a handle for a root directory that holds entries.
C6_Witness ==
    /\ life.op = "open" /\ life.outcome = "handle"
    /\ life.tree # {}

\* C7: after a successful clear the root and everything under it are gone,
\* and an open that follows it directly returns "no cache", not an error.
C7_ClearThenOpenAbsent ==
    /\ (life.op = "clear" /\ life.outcome = "ok") =>
           (life.root = "absent" /\ life.tree = {})
    /\ (life.op = "open" /\ life.prev = [op |-> "clear", outcome |-> "ok"]) =>
           (life.outcome = "none" /\ ~life.handle)

\* open right after a clear that removed a non-empty tree.
C7_Witness ==
    /\ life.op = "open" /\ life.prev = [op |-> "clear", outcome |-> "ok"]
    /\ life.removed # {}
    /\ life.outcome = "none"

\* ------------------------------------------------------------ list_pages

\* The byte of a character, for the order of String.
Byte(c) ==
    CASE c = "." -> 46 [] c = "/" -> 47
      [] c = "a" -> 97 [] c = "b" -> 98 [] c = "c" -> 99 [] c = "d" -> 100
      [] c = "e" -> 101 [] c = "g" -> 103 [] c = "m" -> 109 [] c = "p" -> 112

\* <String as Ord>::lt: the lexicographic order of the bytes.
RECURSIVE StrLess(_, _)
StrLess(a, b) ==
    IF b = <<>> THEN FALSE
    ELSE IF a = <<>> THEN TRUE
    ELSE IF Byte(Head(a)) # Byte(Head(b)) THEN Byte(Head(a)) < Byte(Head(b))
    ELSE StrLess(Tail(a), Tail(b))

\* str::ends_with
EndsWith(str, suffix) ==
    Len(suffix) <= Len(str) /\ SubSeq(str, Len(str) - Len(suffix) + 1, Len(str)) = suffix

\* String::truncate
Truncate(str, new_len) == SubSeq(str, 1, new_len)

\* A directory entry: its file name and whether its file type is a file.
Entry(name, is_file) == [file_name |-> name, is_file |-> is_file]

\* append_all: the entries of one directory in the order read_dir yields
\* them; the regular files whose name ends with the suffix are pushed with
\* the suffix cut off.
RECURSIVE append_all(_, _, _)
append_all(pages, file_iter, suffix) ==
    IF file_iter = <<>> THEN pages
    ELSE LET entry == Head(file_iter)
             page_path == entry.file_name
         IN  IF entry.is_file /\ EndsWith(page_path, suffix)
             THEN append_all(Append(pages, Truncate(page_path, Len(page_path) - Len(suffix))),
                             Tail(file_iter), suffix)
             ELSE append_all(pages, Tail(file_iter), suffix)

\* Vec::sort_unstable: the elements in ascending order.
RECURSIVE Insert(_, _)
Insert(sorted, x) ==
    IF sorted = <<>> THEN <<x>>
    ELSE IF StrLess(x, Head(sorted)) THEN <<x>> \o sorted
    ELSE <<Head(sorted)>> \o Insert(Tail(sorted), x)

RECURSIVE sort_unstable(_)
sort_unstable(v) == IF v = <<>> THEN <<>> ELSE Insert(sort_unstable(Tail(v)), Head(v))

\* No deduplication.
keep_duplicates(v) == v

\* Vec::dedup: consecutive equal elements collapse to the first.
RECURSIVE dedup(_)
dedup(v) ==
    IF Len(v) < 2 THEN v
    ELSE IF v[1] = v[2] THEN dedup(Tail(v))
    ELSE <<v[1]>> \o dedup(Tail(v))

\* The directories list_pages reads, in the order of its loops: languages
\* outside, platforms inside, the custom directory last.
RECURSIVE PlatformDirs(_, _)
PlatformDirs(search_path, platforms) ==
    IF platforms = <<>> THEN <<>>
    ELSE <<[path |-> Push(search_path, PlatformDirectoryName(Head(platforms))),
            suffix |-> S_md]>>
             \o PlatformDirs(Pop(Push(search_path, PlatformDirectoryName(Head(platforms)))),
                             Tail(platforms))

RECURSIVE LanguageDirs(_, _, _)
LanguageDirs(search_path, languages, platforms) ==
    IF languages = <<>> THEN <<>>
    ELSE PlatformDirs(Push(search_path, LanguageDirectoryName(Head(languages))), platforms)
             \o LanguageDirs(Pop(Push(search_path, LanguageDirectoryName(Head(languages)))),
                             Tail(languages), platforms)

VisitedDirs(cfg) ==
    LanguageDirs(PagesDirectory, cfg.languages, cfg.platforms)
        \o (IF cfg.custom_pages_directory # None
            THEN <<[path |-> cfg.custom_pages_directory[1], suffix |-> S_page_md]>>
            ELSE <<>>)

\* The orders in which read_dir may yield a set of entries.
RECURSIVE OrdersOf(_)
OrdersOf(S) ==
    IF S = {} THEN {<<>>}
    ELSE UNION {{<<x>> \o q : q \in OrdersOf(S \ {x})} : x \in S}

\* The entries of a directory; read_dir fails for a directory that is not
\* there, and append_all then returns without pushing.
EntriesOf(dirs, path) == IF Canon(path) \in DOMAIN dirs THEN dirs[Canon(path)] ELSE {}

\* The vectors list_pages may hold before it sorts: one per combination of
\* enumeration orders.
RECURSIVE Collected(_, _, _)
Collected(dirs, visited, pages) ==
    IF visited = <<>> THEN {pages}
    ELSE UNION {Collected(dirs, Tail(visited), append_all(pages, file_iter, Head(visited).suffix)) :
                    file_iter \in OrdersOf(EntriesOf(dirs, Head(visited).path))}

\* pages.sort_unstable(); pages.dedup(); Ok(pages)
Finish(pages) == dedup(sort_unstable(pages))

list_pages(cfg, dirs) == {Finish(pages) : pages \in Collected(dirs, VisitedDirs(cfg), <<>>)}

\* The runs of list_pages.
ListPlatforms == {"Linux", "Common"}
ListLanguages == {<<"e", "n">>}

N_a_md == <<"a", ".", "m", "d">>
N_b_md == <<"b", ".", "m", "d">>
N_a_page_md == <<"a", ".", "p", "a", "g", "e", ".", "m", "d">>

DirEntries ==
    {Entry(N_a_md, TRUE), Entry(N_b_md, TRUE), Entry(N_a_page_md, TRUE),
     Entry(N_b_md, FALSE)}

DirPath(language, platform) ==
    Canon(PagesDirectory \o <<Sep>> \o S_pages_dot \o language \o <<Sep>>
            \o PlatformDirectoryName(platform))

AllDirs == {DirPath(l, p) : l \in ListLanguages, p \in ListPlatforms} \cup {CustomDirectory}

Slots == AllDirs \X DirEntries

DirsOf(present, slots) == [d \in present |-> {sl[2] : sl \in {x \in slots : x[1] = d}}]

NumEntries(dirs) == Cardinality({x \in Slots : x[1] \in DOMAIN dirs /\ x[2] \in dirs[x[1]]})

InitList ==
    /\ config \in [custom_pages_directory : {None, Some(CustomDirectory)},
                   platforms : ListsOver(ListPlatforms, MaxPlatforms),
                   languages : ListsOver(ListLanguages, MaxLanguages)]
    /\ \E present \in {AllDirs} \cup {AllDirs \ {d} : d \in AllDirs} :
           ls = [phase |-> "list", dirs |-> DirsOf(present, {}), out |-> None, prev |-> None]
    /\ command = <<>> /\ files = {} /\ found = NotCalled
    /\ rd = IdleRd /\ life = IdleLife /\ upd = IdleUpd

\* list_pages(): the output of the call before is kept in prev.
ListPages ==
    /\ \E pages \in list_pages(config, ls.dirs) :
           ls' = [ls EXCEPT !.out = Some(pages), !.prev = ls.out]
    /\ UNCHANGED <<config, command, files, found, rd, life, upd>>

\* Another process adds an entry to a directory; the outputs kept are from
\* before the change and are forgotten.
EnvAddEntry(d, e) ==
    /\ d \in DOMAIN ls.dirs /\ e \notin ls.dirs[d]
    /\ \A o \in ls.dirs[d] : o.file_name # e.file_name
    /\ NumEntries(ls.dirs) < MaxEntries
    /\ ls' = [ls EXCEPT !.dirs[d] = @ \cup {e}, !.out = None, !.prev = None]
    /\ UNCHANGED <<config, command, files, found, rd, life, upd>>

NextList ==
    \/ ListPages
    \/ \E d \in AllDirs : \E e \in DirEntries : EnvAddEntry(d, e)

SpecList == InitList /\ [][NextList]_vars

\* The command names the layout holds for the configuration.
Stripped(d, suffix) ==
    {Truncate(e.file_name, Len(e.file_name) - Len(suffix)) :
        e \in {x \in EntriesOf(ls.dirs, d) : x.is_file /\ EndsWith(x.file_name, suffix)}}

ListedNames ==
    UNION {Stripped(DirPath(config.languages[j], config.platforms[i]), S_md) :
              i \in DOMAIN config.platforms, j \in DOMAIN config.languages}
        \cup (IF config.custom_pages_directory # None
              THEN Stripped(CustomDirectory, S_page_md) ELSE {})

\* C8: the output of list_pages is strictly ascending (sorted, no
\* duplicates), holds exactly the command names of the directories whatever
\* the enumeration order, and two calls with no change between them agree.
C8_ListSortedUnique ==
    ls.phase = "list" =>
        /\ ls.out # None =>
               /\ \A i \in 1..(Len(ls.out[1]) - 1) : StrLess(ls.out[1][i], ls.out[1][i + 1])
               /\ {ls.out[1][i] : i \in DOMAIN ls.out[1]} = ListedNames
        /\ ls.prev # None => ls.prev = ls.out

\* Two calls in a row over directories in which a name occurs twice.
C8_Witness ==
    /\ ls.phase = "list" /\ ls.prev # None /\ ls.out # None
    /\ Len(ls.out[1]) >= 2
    /\ NumEntries(ls.dirs) > Len(ls.out[1])
    /\ Cardinality(ListedNames) = Len(ls.out[1])

\* ---------------------------------------------------------------- update

\* Cache::update has no body in the source (todo!()); the steps below are
\* the refresh the specification describes: fetch the archive, decode it,
\* extract its entries into a staging directory, then replace the tree by
\* the staged one in a single step.  A page file is a pair of its name and
\* the version of its bytes.
PageNames == 1..MaxPages

OldTrees == SUBSET {<<n, "old">> : n \in PageNames}
Archives == SUBSET {<<n, "new">> : n \in PageNames}

InitUpdate ==
    /\ \E tree \in OldTrees : \E archive \in Archives :
           upd = [phase |-> "ready", tree |-> tree, old |-> tree, archive |-> archive,
                  staging |-> {}, seen |-> tree, reported |-> "none"]
    /\ config = [custom_pages_directory |-> None, platforms |-> <<>>, languages |-> <<>>]
    /\ command = <<>> /\ files = {} /\ found = NotCalled
    /\ rd = IdleRd /\ life = IdleLife /\ ls = IdleLs

UpdUnchanged == UNCHANGED <<config, command, files, found, rd, life, ls>>

\* An extraction in place, over the tree.
ExtractOverTree(u, entry) ==
    [u EXCEPT !.staging = @ \cup {entry},
              !.tree = {t \in @ : t[1] # entry[1]} \cup {entry}]

\* The extraction of one archive entry: into the staging directory.
ExtractInto(u, entry) == [u EXCEPT !.staging = @ \cup {entry}]

\* The replacement of the tree by the staged tree.
ReplaceTree(u) == [u EXCEPT !.tree = u.staging, !.phase = "done", !.reported = "ok"]

\* A failure of the transfer, the decoding or the extraction.
FailUpdate(u) == [u EXCEPT !.phase = "failed", !.reported = "err"]

UpdateFetch ==
    /\ upd.phase = "ready"
    /\ \/ upd' = [upd EXCEPT !.phase = "fetched"]
       \/ upd' = FailUpdate(upd)
    /\ UpdUnchanged

UpdateDecode ==
    /\ upd.phase = "fetched"
    /\ \/ upd' = [upd EXCEPT !.phase = "extracting"]
       \/ upd' = FailUpdate(upd)
    /\ UpdUnchanged

UpdateExtract ==
    /\ upd.phase = "extracting"
    /\ \/ \E entry \in upd.archive \ upd.staging : upd' = ExtractInto(upd, entry)
       \/ upd' = FailUpdate(upd)
    /\ UpdUnchanged

UpdateReplace ==
    /\ upd.phase = "extracting" /\ upd.staging = upd.archive
    /\ upd' = ReplaceTree(upd)
    /\ UpdUnchanged

\* A reader of the cache looks at the tree while the update runs.
ReaderLooks ==
    /\ upd.phase # "idle"
    /\ upd.seen # upd.tree
    /\ upd' = [upd EXCEPT !.seen = upd.tree]
    /\ UpdUnchanged

\* The next update of the refreshed or untouched cache.
UpdateAgain ==
    /\ upd.phase \in {"done", "failed"}
    /\ \E archive \in Archives :
           upd' = [upd EXCEPT !.phase = "ready", !.old = upd.tree, !.archive = archive,
                              !.staging = {}, !.seen = upd.tree, !.reported = "none"]
    /\ UpdUnchanged

NextUpdate ==
    \/ UpdateFetch
    \/ UpdateDecode
    \/ UpdateExtract
    \/ UpdateReplace
    \/ ReaderLooks
    \/ UpdateAgain

SpecUpdate == InitUpdate /\ [][NextUpdate]_vars

\* C9: a failed update reports the failure and leaves every page file as it
\* was; the tree changes only by a complete extraction, so what a reader
\* sees is the old tree or the new tree and never a mix.
C9_UpdateAllOrNothing ==
    upd.phase # "idle" =>
        /\ upd.phase = "failed" => (upd.tree = upd.old /\ upd.reported = "err")
        /\ upd.phase # "done" => upd.tree = upd.old
        /\ upd.phase = "done" => upd.tree = upd.archive
        /\ upd.tree \in {upd.old, upd.archive}
        /\ upd.seen \in {upd.old, upd.archive}

\* An update failed after it had extracted an entry over a tree with pages.
C9_Witness ==
    /\ upd.phase = "failed" /\ upd.staging # {} /\ upd.old # {}
    /\ upd.tree = upd.old

====
